---- MODULE Spec2Model ----
(***************************************************************************)
(* World of Bits (D3): the GameModel / GameView version of src/src/main.ts *)
(* (lines 1-628).  The model is the GameModel state machine (player        *)
(* coordinate, held token, override Map, snapshot in localStorage) with    *)
(* the GameView handlers that drive it (cell click, move buttons, New      *)
(* Game, movement-mode switch, geolocation callbacks, page load).          *)
(*                                                                         *)
(* Strings are sequences of one-character strings, a JavaScript Map is the *)
(* sequence of its [key, value] entries in insertion order, and the text   *)
(* kept under GAME_STORAGE_KEY is a record: absent, the empty string, text *)
(* that JSON.parse rejects, or the JSON value that was serialized.         *)
(***************************************************************************)
EXTENDS Integers, Sequences, FiniteSets, TLC

\* ------------------------------------------------------------ constants
INTERACT_RANGE == 3
TARGET == 32
\* Cell size.  Geolocation samples are integers in units of half a cell
\* (0.5e-4 degree), so CELL_DEG is 2 sample units.
CELL_DEG == 2
\* JavaScript null (inHand, geoWatchId, localStorage.getItem of no entry).
NULL == -1

\* --------------------------------------------------------------- bounds
\* Cells that are rendered and can be clicked: on the i axis the rows on both
\* sides of the interaction range of the start row, INTERACT_RANGE - 1..MaxCell,
\* on the j axis MinCoord..MaxCell.
MaxCell == 3
\* Coordinates the player can stand on: MinCoord..MaxPlayer on both axes.
MaxPlayer == 0
\* Events the old page still handles between a call of location.reload() and
\* the page being replaced.
MaxLateEvents == 1
MinCoord == 0 - 1

CellsI == (INTERACT_RANGE - 1)..MaxCell
CellsJ == MinCoord..MaxCell
PlayerCoords == MinCoord..MaxPlayer
Cells == CellsI \X CellsJ

\* ------------------------------------------------------------ utilities
DigitChar == <<"0", "1", "2", "3", "4", "5", "6", "7", "8", "9">>

RECURSIVE Digits(_)
Digits(n) ==
  IF n < 10 THEN <<DigitChar[n + 1]>>
  ELSE Digits(n \div 10) \o <<DigitChar[(n % 10) + 1]>>

\* Number-to-string conversion of a template literal, `${n}`.
ToStr(n) == IF n < 0 THEN <<"-">> \o Digits(0 - n) ELSE Digits(n)

\* key with the signs dropped.
key_Unsigned(i, j) ==
  Digits(IF i < 0 THEN 0 - i ELSE i) \o <<",">> \o Digits(IF j < 0 THEN 0 - j ELSE j)

\* key(i, j) = `${i},${j}`
key(i, j) == ToStr(i) \o <<",">> \o ToStr(j)

\* toIJ on one axis: Math.floor(x / CELL_DEG)
toIJ(lat, lng) == <<lat \div CELL_DEG, lng \div CELL_DEG>>

\* luck(s): the seeded hash of ./_luck.ts, a deterministic function of the
\* string alone; its value r in [0,1) is kept in hundredths (0..99).
LuckAlphabet ==
  <<"0", "1", "2", "3", "4", "5", "6", "7", "8", "9", "-", ",",
    "s", "p", "a", "w", "n", ":">>
CharCode(c) == CHOOSE k \in 1..Len(LuckAlphabet) : LuckAlphabet[k] = c
LuckSeed == 13
LuckMul == 44

RECURSIVE LuckFold(_, _)
LuckFold(h, s) ==
  IF s = <<>> THEN h
  ELSE LuckFold((h * LuckMul + CharCode(Head(s))) % 100, Tail(s))

luck(s) == LuckFold(LuckSeed, s)

\* The three numbers read as the widths of consecutive buckets.
bucket_Widths(r) ==
  IF r < 25 THEN 1
  ELSE IF r < 25 + 30 THEN 2
  ELSE IF r < 25 + 30 + 32 THEN 4
  ELSE 0

\* The if-chain of getDefaultCellState on r in hundredths:
\* if (r < 0.25) return 1; if (r < 0.30) return 2; if (r < 0.32) return 4;
\* return 0
bucket(r) ==
  IF r < 25 THEN 1
  ELSE IF r < 30 THEN 2
  ELSE IF r < 32 THEN 4
  ELSE 0

\* getDefaultCellState: luck(`spawn:${i},${j}`) bucketed at 0.25, 0.30, 0.32
getDefaultCellState(i, j) ==
  bucket(luck(<<"s", "p", "a", "w", "n", ":">> \o ToStr(i) \o <<",">> \o ToStr(j)))

\* key and getDefaultCellState are pure: their values over the window, computed
\* once.
RECURSIVE KeyTable(_)
KeyTable(S) ==
  IF S = {} THEN <<>>
  ELSE LET c == CHOOSE x \in S : TRUE
       IN  (c :> key(c[1], c[2])) @@ KeyTable(S \ {c})
KeyOf == KeyTable(Cells)

RECURSIVE DefaultTable(_)
DefaultTable(S) ==
  IF S = {} THEN <<>>
  ELSE LET c == CHOOSE x \in S : TRUE
       IN  (c :> getDefaultCellState(c[1], c[2])) @@ DefaultTable(S \ {c})
DefaultOf == DefaultTable(Cells)

\* ------------------------------------------------- Map<string, number>
\* A Map is the sequence of its entries <<k, v>> in insertion order.
MapHas(m, k) == \E n \in 1..Len(m) : m[n][1] = k
MapGet(m, k) == m[CHOOSE n \in 1..Len(m) : m[n][1] = k][2]
\* Map.prototype.set: an existing key keeps its place, a new key is appended.
MapSet(m, k, v) ==
  IF MapHas(m, k)
  THEN [n \in 1..Len(m) |-> IF m[n][1] = k THEN <<k, v>> ELSE m[n]]
  ELSE Append(m, <<k, v>>)

\* new Map(); for (const [k, v] of entries) map.set(k, v)
RECURSIVE MapFromEntries(_, _)
MapFromEntries(m, entries) ==
  IF entries = <<>> THEN m
  ELSE MapFromEntries(MapSet(m, Head(entries)[1], Head(entries)[2]), Tail(entries))

\* ------------------------------------------------------- localStorage
\* The entry under GAME_STORAGE_KEY.  kind: "absent" (getItem returns null),
\* "empty" (the empty string), "garbage" (text JSON.parse rejects), "jsonnull"
\* (the text null), "json" (the text of an object, held as its parsed value).
NoPayload ==
  [playerIJ |-> <<>>, inHand |-> NULL, overrides |-> [isArray |-> FALSE, elems |-> <<>>]]
Absent == [kind |-> "absent", payload |-> NoPayload]
EmptyText == [kind |-> "empty", payload |-> NoPayload]
Garbage == [kind |-> "garbage", payload |-> NoPayload]
\* JSON.stringify(payload) of a PersistedState
JSONstringify(payload) == [kind |-> "json", payload |-> payload]
\* The text null.
JsonNull == [kind |-> "jsonnull", payload |-> NoPayload]

\* ------------------------------------------------------------ GameModel
\* toIJ(START_LATLNG), brought into the modelled window.
initialIJ == <<0, 0>>

\* The state the constructor sets before load().
ConstructorState ==
  [playerIJ |-> initialIJ, inHand |-> NULL, modifiedCells |-> <<>>]

\* A value that `for (const [k, v] of ...)` cannot destructure (a number, null,
\* an object): the destructuring throws a TypeError.
NotIterable == <<"#">>

\* x ?? d on the playerIJ field: <<>> stands for a missing field (undefined).
OrElseIJ(x, d) == IF x = <<>> THEN d ELSE x

\* load() assigning the fields one by one as it reads them, the way the
\* loadGameState of the earlier free-function version does: what was read
\* before the loop throws stays applied.
load_FieldByField(st, saved) ==
  IF saved.kind \in {"absent", "empty"}
  THEN [state |-> st, store |-> saved]
  ELSE IF saved.kind \in {"garbage", "jsonnull"}
  THEN [state |-> st, store |-> Absent]
  ELSE LET parsed == saved.payload
           entries == IF parsed.overrides.isArray THEN parsed.overrides.elems ELSE <<>>
           bad == {n \in 1..Len(entries) : entries[n] = NotIterable}
           read == IF bad = {} THEN entries
                   ELSE SubSeq(entries, 1, (CHOOSE n \in bad : \A m \in bad : n <= m) - 1)
           s1 == [playerIJ |-> OrElseIJ(parsed.playerIJ, st.playerIJ),
                  inHand |-> parsed.inHand,
                  modifiedCells |-> MapFromEntries(<<>>, read)]
       IN  [state |-> s1, store |-> IF bad = {} THEN saved ELSE Absent]

\* load(): returns the state and the store entry it leaves.
load(st, saved) ==
  IF saved.kind \in {"absent", "empty"}
  THEN [state |-> st, store |-> saved]              \* if (!saved) return
  ELSE IF saved.kind = "garbage"
  THEN [state |-> st, store |-> Absent]             \* JSON.parse throws; catch: removeItem
  ELSE IF saved.kind = "jsonnull"
  THEN [state |-> st, store |-> Absent]             \* parsed.overrides throws on null
  ELSE LET parsed == saved.payload
           entries == IF parsed.overrides.isArray THEN parsed.overrides.elems ELSE <<>>
       IN  IF \E n \in 1..Len(entries) : entries[n] = NotIterable
           THEN [state |-> st, store |-> Absent]    \* the loop throws; catch: removeItem
           ELSE [state |-> [playerIJ |-> OrElseIJ(parsed.playerIJ, st.playerIJ),
                            inHand |-> parsed.inHand,
                            modifiedCells |-> MapFromEntries(<<>>, entries)],
                 store |-> saved]

\* save() that leaves the held token out of the payload.
save_NoHand(st) ==
  JSONstringify([playerIJ |-> st.playerIJ,
                 inHand |-> NULL,
                 overrides |-> [isArray |-> TRUE, elems |-> st.modifiedCells]])

\* save(): the text written by localStorage.setItem.
save(st) ==
  JSONstringify([playerIJ |-> st.playerIJ,
                 inHand |-> st.inHand,
                 overrides |-> [isArray |-> TRUE, elems |-> st.modifiedCells]])

\* clearSavedState(): localStorage.removeItem
clearSavedState == Absent

\* getCellState written as `modifiedCells.get(k) || getDefaultCellState(i, j)`:
\* an override of 0 falls back to the generator.
getCellState_FalsyOverride(st, i, j) ==
  IF MapHas(st.modifiedCells, KeyOf[<<i, j>>])
     /\ MapGet(st.modifiedCells, KeyOf[<<i, j>>]) # 0
  THEN MapGet(st.modifiedCells, KeyOf[<<i, j>>])
  ELSE DefaultOf[<<i, j>>]

\* getCellState(i, j): const k = key(i, j); the override if the Map has k,
\* else getDefaultCellState(i, j).
getCellState(st, i, j) ==
  LET k == KeyOf[<<i, j>>]
  IN  IF MapHas(st.modifiedCells, k)
      THEN MapGet(st.modifiedCells, k)
      ELSE DefaultOf[<<i, j>>]

\* setModifiedCellState with the key built as key(j, i).
setModifiedCellState_SwappedKey(st, i, j, v) ==
  [st EXCEPT !.modifiedCells = MapSet(st.modifiedCells, key(j, i), v)]

\* setModifiedCellState without the Map update.
setModifiedCellState_Dropped(st, i, j, v) == st

\* setModifiedCellState: the Map update; its save() is the first write of the
\* caller's result.
setModifiedCellState(st, i, j, v) ==
  [st EXCEPT !.modifiedCells = MapSet(st.modifiedCells, KeyOf[<<i, j>>], v)]

Abs(x) == IF x < 0 THEN 0 - x ELSE x

\* isNear that checks the i axis only.
isNear_IAxisOnly(st, i, j) == Abs(i - st.playerIJ[1]) <= INTERACT_RANGE

isNear(st, i, j) ==
  /\ Abs(i - st.playerIJ[1]) <= INTERACT_RANGE
  /\ Abs(j - st.playerIJ[2]) <= INTERACT_RANGE

\* movePlayerToIJ that sets the coordinate and does not save.
movePlayerToIJ_NoSave(st, newIJ) ==
  LET s2 == [st EXCEPT !.playerIJ = newIJ]
  IN  [state |-> s2, store |-> save(st)]

\* movePlayerToIJ / movePlayerBy: the new state and the text save() writes.
movePlayerToIJ(st, newIJ) ==
  LET s2 == [st EXCEPT !.playerIJ = newIJ]
  IN  [state |-> s2, store |-> save(s2)]

\* movePlayerBy that keeps the player inside the window MinCoord..MaxPlayer.
movePlayerBy_Clamped(st, di, dj) ==
  LET Clamp(x) == IF x > MaxPlayer THEN MaxPlayer
                  ELSE IF x < MinCoord THEN MinCoord ELSE x
      s2 == [st EXCEPT !.playerIJ = <<Clamp(st.playerIJ[1] + di),
                                      Clamp(st.playerIJ[2] + dj)>>]
  IN  [state |-> s2, store |-> save(s2)]

\* movePlayerBy that clears the override table, as clearVisibleState() did.
movePlayerBy_ClearVisibleState(st, di, dj) ==
  LET s2 == [st EXCEPT !.playerIJ = <<st.playerIJ[1] + di, st.playerIJ[2] + dj>>,
                       !.modifiedCells = <<>>]
  IN  [state |-> s2, store |-> save(s2)]

\* movePlayerBy that saves before it updates the coordinate.
movePlayerBy_SaveFirst(st, di, dj) ==
  LET s2 == [st EXCEPT !.playerIJ = <<st.playerIJ[1] + di, st.playerIJ[2] + dj>>]
  IN  [state |-> s2, store |-> save(st)]

movePlayerBy(st, di, dj) ==
  LET s2 == [st EXCEPT !.playerIJ = <<st.playerIJ[1] + di, st.playerIJ[2] + dj>>]
  IN  [state |-> s2, store |-> save(s2)]

EvNone == [type |-> "none", mode |-> "", value |-> 0]
EvVictory(mode, value) == [type |-> "victory", mode |-> mode, value |-> value]

\* The pick-up test as cv >= 0: an empty cell is picked up too.
PickCondition_NonNegative(cv) == cv >= 0

\* if (cv > 0) on the empty-hand path
PickCondition(cv) == cv > 0

\* The combine test without the equality: any non-empty cell accepts the token.
CombineCondition_AnyToken(cv, h) == cv > 0

\* The combine test as cv >= inHand: a smaller token is accepted by a larger
\* cell.
CombineCondition_AtLeast(cv, h) == cv >= h /\ cv > 0

\* The combine test also accepting an empty cell: the token is put down.
CombineCondition_OrEmpty(cv, h) == cv = h \/ cv = 0

\* if (cv === this.state.inHand && cv > 0)
CombineCondition(cv, h) == cv = h /\ cv > 0

\* newVal as inHand + 1.
newVal_Inc(h) == h + 1

\* newVal as inHand * 3.
newVal_Triple(h) == h * 3

\* newVal as inHand: the doubling forgotten.
newVal_Same(h) == h

\* const newVal = this.state.inHand * 2
newVal(h) == h * 2

\* The victory test as > target.
ReachedTarget_Strict(v) == v > TARGET

\* if (... >= this.target)
ReachedTarget(v) == v >= TARGET

\* handleCellClick(i, j): the new state, the texts written to the store in
\* order, the branch taken and the returned GameEvent.
handleCellClick(st, i, j) ==
  IF ~isNear(st, i, j)
  THEN [state |-> st, writes |-> <<>>, branch |-> "far", event |-> EvNone]
  ELSE
    LET cv == getCellState(st, i, j) IN
    IF st.inHand = NULL
    THEN IF PickCondition(cv)
         THEN LET s1 == setModifiedCellState(st, i, j, 0)
                  s2 == [s1 EXCEPT !.inHand = cv]
              IN  [state |-> s2,
                   writes |-> <<save(s1), save(s2)>>,
                   branch |-> "pick",
                   event |-> IF ReachedTarget(s2.inHand)
                             THEN EvVictory("pick", s2.inHand)
                             ELSE EvNone]
         ELSE [state |-> st, writes |-> <<>>, branch |-> "empty", event |-> EvNone]
    ELSE IF CombineCondition(cv, st.inHand)
         THEN LET nv == newVal(st.inHand)
                  s1 == setModifiedCellState(st, i, j, nv)
                  s2 == [s1 EXCEPT !.inHand = NULL]
              IN  [state |-> s2,
                   writes |-> <<save(s1), save(s2)>>,
                   branch |-> "combine",
                   event |-> IF ReachedTarget(nv)
                             THEN EvVictory("craft", nv)
                             ELSE EvNone]
         ELSE [state |-> st, writes |-> <<>>, branch |-> "mismatch", event |-> EvNone]

\* The store after a sequence of setItem calls.
StoreAfter(sto, ws) == IF ws = <<>> THEN sto ELSE ws[Len(ws)]

\* GameModel.handleCellClick as a whole call: state, store, branch, event.
ModelClick(st, sto, i, j) ==
  LET r == handleCellClick(st, i, j)
  IN  [state |-> r.state, store |-> StoreAfter(sto, r.writes),
       branch |-> r.branch, event |-> r.event, reload |-> FALSE]

\* ------------------------------------------------------------- GameView
\* GameView.handleCellClick: the view's own range check, the model call, and
\* on a victory clearSavedState() and location.reload().
ViewClick(st, sto, i, j) ==
  IF ~isNear(st, i, j)
  THEN [state |-> st, store |-> sto, branch |-> "far", event |-> EvNone,
        reload |-> FALSE]
  ELSE LET r == ModelClick(st, sto, i, j)
       IN  IF r.event.type = "victory"
           THEN [r EXCEPT !.store = clearSavedState, !.reload = TRUE]
           ELSE r

\* The success callback with moveTo applied to every sample.
onPosition_AlwaysMove(st, sto, lat, lng) ==
  LET newIJ == toIJ(lat, lng)
      r == movePlayerToIJ(st, newIJ)
  IN  [state |-> r.state, store |-> r.store, branch |-> "moved", ij |-> newIJ]

\* The success callback passed to watchPosition: the sample's cell, and
\* movePlayerToIJ only when it is not the player's cell.
onPosition(st, sto, lat, lng) ==
  LET newIJ == toIJ(lat, lng)
      r == movePlayerToIJ(st, newIJ)
  IN  IF newIJ[1] # st.playerIJ[1] \/ newIJ[2] # st.playerIJ[2]
      THEN [state |-> r.state, store |-> r.store, branch |-> "moved", ij |-> newIJ]
      ELSE [state |-> st, store |-> sto, branch |-> "same", ij |-> newIJ]

\* navigator.geolocation.watchPosition: the id of the new watch, one that no
\* registered watch has.
watchPosition(ws) ==
  CHOOSE n \in 1..(Cardinality(ws) + 1) :
    n \notin ws /\ \A m \in 1..(n - 1) : m \in ws

\* startGeoMovement(): nothing without geolocation support or with a watch
\* already held; otherwise registers a watch and keeps its id.
startGeoMovement(id, ws, supported) ==
  IF ~supported THEN [geoWatchId |-> id, watches |-> ws]
  ELSE IF id # NULL THEN [geoWatchId |-> id, watches |-> ws]
  ELSE [geoWatchId |-> watchPosition(ws), watches |-> ws \cup {watchPosition(ws)}]

\* stopGeoMovement that forgets the id without clearWatch.
stopGeoMovement_NoClear(id, ws) ==
  IF id # NULL
  THEN [geoWatchId |-> NULL, watches |-> ws]
  ELSE [geoWatchId |-> id, watches |-> ws]

\* stopGeoMovement(): clearWatch(geoWatchId) and geoWatchId = null.
stopGeoMovement(id, ws) ==
  IF id # NULL
  THEN [geoWatchId |-> NULL, watches |-> ws \ {id}]
  ELSE [geoWatchId |-> id, watches |-> ws]

\* The error callback giving the watch up: clearWatch and geoWatchId = null.
onError_StopsWatch(st, sto, id, ws) ==
  [state |-> st, store |-> sto, geoWatchId |-> NULL, watches |-> ws \ {id}]

\* The error callback passed to watchPosition: console.error only.
onError(st, sto, id, ws) ==
  [state |-> st, store |-> sto, geoWatchId |-> id, watches |-> ws]

\* The click handler of the switch-mode button.
switchMode(gps, id, ws, supported) ==
  IF ~gps
  THEN LET r == startGeoMovement(id, ws, supported)
       IN  [isGpsMode |-> TRUE, buttonsShown |-> FALSE,
            geoWatchId |-> r.geoWatchId, watches |-> r.watches]
  ELSE LET r == stopGeoMovement(id, ws)
       IN  [isGpsMode |-> FALSE, buttonsShown |-> TRUE,
            geoWatchId |-> r.geoWatchId, watches |-> r.watches]

VARIABLES
  state,       \* GameModel.state: [playerIJ, inHand, modifiedCells]
  store,       \* the localStorage entry under GAME_STORAGE_KEY
  geoWatchId,  \* GameView.geoWatchId: NULL or the id watchPosition returned
  isGpsMode,   \* GameView.isGpsMode
  buttonsShown,  \* the move buttons' style.display is not "none"
  watches,     \* the watch ids registered with navigator.geolocation
  geoSupported,  \* "geolocation" in navigator
  reloading,   \* NULL, or the number of events handled since location.reload()
  resetBy,     \* what called location.reload(): "", "pick", "craft", "newGame"
  last         \* the last handler: [op, branch, event, i, j, cv, after]

vars == <<state, store, geoWatchId, isGpsMode, buttonsShown, watches,
          geoSupported, reloading, resetBy, last>>

\* op: the handler; branch: the path it took (for createGame, the kind of the
\* store entry it read); event: the GameEvent the model returned; i, j: the
\* cell a click changed or the coordinate a move reached; cv: the value the
\* click handler read from the clicked cell (none when the click was out of
\* range and the cell was not read); after: for createGame on a page load, what
\* had called location.reload() ("" when the page was simply reopened).
Last(op, branch, event, i, j, cv) ==
  [op |-> op, branch |-> branch, event |-> event, i |-> i, j |-> j, cv |-> cv,
   after |-> ""]

Snapshot(p, h, o) ==
  JSONstringify([playerIJ |-> p, inHand |-> h,
                 overrides |-> [isArray |-> TRUE, elems |-> o]])

\* What the store can hold when the page is first opened: nothing, text left
\* by something else (unparseable, or JSON of another shape), or the snapshot
\* of an earlier session.  That session brought tokens in from beyond the
\* window: cell (2,-1), generated as 2, was doubled up to 16, the other tokens
\* of the window were carried away, and a 16 is in the hand.
\* The text {"playerIJ":{"i":-1,"j":-1}}: an object without inHand and
\* without overrides.
MissingFields ==
  JSONstringify([NoPayload EXCEPT !.playerIJ = <<MinCoord, MinCoord>>])

\* The text {"playerIJ":{"i":0,"j":0},"inHand":null,"overrides":[7]}: an
\* overrides array whose element is not a [key, value] pair.
BadEntry ==
  JSONstringify([playerIJ |-> <<0, 0>>, inHand |-> NULL,
                 overrides |-> [isArray |-> TRUE, elems |-> <<NotIterable>>]])

\* The text {"playerIJ":{"i":-1,"j":-1},"inHand":1,
\* "overrides":[["3,-1",0],7]}: a snapshot whose overrides array goes wrong
\* after a good pair.
PartWay ==
  JSONstringify([playerIJ |-> <<MinCoord, MinCoord>>, inHand |-> 1,
                 overrides |-> [isArray |-> TRUE,
                                elems |-> << <<key(3, 0 - 1), 0>>, NotIterable >>]])

InitStores ==
  { Absent, EmptyText, Garbage, JsonNull, MissingFields, BadEntry, PartWay,
    Snapshot(<<0, 0>>, 16,
             << <<key(2, 0 - 1), 16>>, <<key(3, 0 - 1), 0>>,
                <<key(3, 3), 0>> >>) }

\* createGame(): new GameModel(initialIJ), whose constructor calls load().
createGame(saved) == load(ConstructorState, saved)

Init ==
  \E s0 \in InitStores :
    /\ state = createGame(s0).state
    /\ store = createGame(s0).store
    /\ geoWatchId = NULL
    /\ isGpsMode = FALSE
    /\ buttonsShown = TRUE
    /\ watches = {}
    /\ geoSupported \in BOOLEAN
    /\ reloading = NULL
    /\ resetBy = ""
    /\ last = Last("createGame", s0.kind, EvNone, 0, 0, NULL)

\* An event handler of the page runs: always before a reload is requested,
\* and for a bounded number of events after.  Of the events after, only those
\* whose handler reaches the model or the store are followed: the view of a
\* page that is about to be replaced is of no consequence.
CanHandle == reloading = NULL \/ reloading < MaxLateEvents
Handled == IF reloading = NULL THEN NULL ELSE reloading + 1
ReloadCalled == IF reloading = NULL THEN 0 ELSE reloading + 1

\* The page is loaded again: location.reload() completes, or the user reopens
\* or refreshes the page.  The old page's watch and handlers are gone.
PageLoad ==
  /\ state' = createGame(store).state
  /\ store' = createGame(store).store
  /\ geoWatchId' = NULL
  /\ isGpsMode' = FALSE
  /\ buttonsShown' = TRUE
  /\ watches' = {}
  /\ UNCHANGED geoSupported
  /\ reloading' = NULL
  /\ resetBy' = ""
  /\ last' = [Last("createGame", store.kind, EvNone, 0, 0, NULL)
                EXCEPT !.after = resetBy]

ClickCell(r, i, j) == IF r.branch \in {"pick", "combine"} THEN <<i, j>> ELSE <<0, 0>>

\* GameView.handleCellClick: the click handler of a rendered cell.
ViewHandleCellClick ==
  \E i \in CellsI, j \in CellsJ :
    LET r == ViewClick(state, store, i, j) IN
    /\ CanHandle
    /\ state' = r.state
    /\ store' = r.store
    /\ reloading' = IF r.reload THEN ReloadCalled ELSE Handled
    /\ resetBy' = IF r.reload THEN r.event.mode ELSE resetBy
    /\ last' = Last("viewClick", r.branch, r.event,
                    ClickCell(r, i, j)[1], ClickCell(r, i, j)[2],
                    IF r.branch = "far" THEN NULL ELSE getCellState(state, i, j))
    /\ UNCHANGED <<geoWatchId, isGpsMode, buttonsShown, watches, geoSupported>>

\* GameView.movePlayer: a direction button, while the buttons are shown.
ViewMovePlayer ==
  \E d \in {<<1, 0>>, <<0 - 1, 0>>, <<0, 0 - 1>>, <<0, 1>>} :
    LET r == movePlayerBy(state, d[1], d[2]) IN
    /\ CanHandle
    /\ buttonsShown
    /\ r.state.playerIJ[1] \in PlayerCoords
    /\ r.state.playerIJ[2] \in PlayerCoords
    /\ state' = r.state
    /\ store' = r.store
    /\ reloading' = Handled
    /\ last' = Last("movePlayer", "", EvNone,
                    r.state.playerIJ[1], r.state.playerIJ[2], NULL)
    /\ UNCHANGED <<geoWatchId, isGpsMode, buttonsShown, watches, geoSupported,
                   resetBy>>

\* The New Game button: clearSavedState(); location.reload().
NewGame ==
  /\ CanHandle
  /\ store' = clearSavedState
  /\ reloading' = ReloadCalled
  /\ resetBy' = "newGame"
  /\ last' = Last("newGame", "", EvNone, 0, 0, NULL)
  /\ UNCHANGED <<state, geoWatchId, isGpsMode, buttonsShown, watches,
                 geoSupported>>

\* The switch-mode button: startGeoMovement() or stopGeoMovement().
SwitchMode ==
  LET r == switchMode(isGpsMode, geoWatchId, watches, geoSupported) IN
  /\ reloading = NULL
  /\ isGpsMode' = r.isGpsMode
  /\ buttonsShown' = r.buttonsShown
  /\ geoWatchId' = r.geoWatchId
  /\ watches' = r.watches
  /\ reloading' = Handled
  /\ last' = Last("switchMode", "", EvNone, 0, 0, NULL)
  /\ UNCHANGED <<state, store, geoSupported, resetBy>>

\* The samples the location feed delivers: every half cell of the window.
Samples == (MinCoord * CELL_DEG)..(MaxPlayer * CELL_DEG + CELL_DEG - 1)

\* The success callback of a registered watch.
GeoPosition ==
  \E lat \in Samples, lng \in Samples :
    LET r == onPosition(state, store, lat, lng) IN
    /\ CanHandle
    /\ watches # {}
    /\ state' = r.state
    /\ store' = r.store
    /\ last' = Last("geoPosition", r.branch, EvNone, r.ij[1], r.ij[2], NULL)
    /\ reloading' = Handled
    /\ UNCHANGED <<geoWatchId, isGpsMode, buttonsShown, watches, geoSupported,
                   resetBy>>

\* The error callback of a registered watch: console.error only.
GeoError ==
  LET r == onError(state, store, geoWatchId, watches) IN
  /\ reloading = NULL
  /\ watches # {}
  /\ state' = r.state
  /\ store' = r.store
  /\ geoWatchId' = r.geoWatchId
  /\ watches' = r.watches
  /\ reloading' = Handled
  /\ last' = Last("geoError", "", EvNone, 0, 0, NULL)
  /\ UNCHANGED <<isGpsMode, buttonsShown, geoSupported, resetBy>>

Next ==
  \/ PageLoad
  \/ ViewHandleCellClick
  \/ ViewMovePlayer
  \/ NewGame
  \/ SwitchMode
  \/ GeoPosition
  \/ GeoError

Spec == Init /\ [][Next]_vars

\* =============================================================== claims
ValueAt(st, c) == getCellState(st, c[1], c[2])

\* The cells of a region in some order.
RECURSIVE CellList(_)
CellList(R) ==
  IF R = {} THEN <<>>
  ELSE LET c == CHOOSE x \in R : TRUE IN <<c>> \o CellList(R \ {c})
WindowList == CellList(Cells)

\* The current values of all the cells of the window, in the order of
\* WindowList.
RECURSIVE ValuesOf(_, _)
ValuesOf(st, n) ==
  IF n = 0 THEN <<>> ELSE Append(ValuesOf(st, n - 1), ValueAt(st, WindowList[n]))
CellValues(st) == ValuesOf(st, Len(WindowList))

\* The coordinates a moveTo is tried with: two corners of the player's
\* window and the initial cell.
MoveTargets == {<<MinCoord, MinCoord>>, <<MaxPlayer, MinCoord>>, initialIJ}
LastCell == <<last.i, last.j>>
IsClick == last.op = "viewClick"

\* |di| <= INTERACT_RANGE and |dj| <= INTERACT_RANGE, from the coordinates.
InRange(st, c) ==
  /\ c[1] - st.playerIJ[1] <= INTERACT_RANGE
  /\ st.playerIJ[1] - c[1] <= INTERACT_RANGE
  /\ c[2] - st.playerIJ[2] <= INTERACT_RANGE
  /\ st.playerIJ[2] - c[2] <= INTERACT_RANGE

\* C1. Pick-up: with an empty hand, interact on any in-range cell of value
\* v > 0 leaves the hand holding v and that cell's value 0; no other cell's
\* value and not the player coordinate change.  Stated of the call on every
\* reachable state and every cell, and of the state every pick-up left.
C1_PickupClearsSource ==
  /\ \A c \in Cells :
       LET v == ValueAt(state, c)
           r == ModelClick(state, store, c[1], c[2])
       IN  (InRange(state, c) /\ state.inHand = NULL /\ v > 0) =>
             /\ r.state.inHand = v
             /\ ValueAt(r.state, c) = 0
             /\ \A d \in Cells \ {c} : ValueAt(r.state, d) = ValueAt(state, d)
             /\ r.state.playerIJ = state.playerIJ
  /\ (IsClick /\ last.branch = "pick") =>
       /\ last.cv > 0
       /\ state.inHand = last.cv
       /\ ValueAt(state, LastCell) = 0

\* A pick-up of a generated token has just happened.
C1_Witness ==
  /\ last.op = "viewClick"
  /\ last.branch = "pick"
  /\ LastCell \in Cells
  /\ DefaultOf[LastCell] > 0
  /\ state.inHand = DefaultOf[LastCell]
  /\ ValueAt(state, LastCell) = 0

\* C2. Combine: holding h > 0, interact on any in-range cell whose value is h
\* sets that cell to exactly 2*h and empties the hand; no other cell and not
\* the player coordinate change.
C2_CombineDoubles ==
  /\ \A c \in Cells :
       LET h == state.inHand
           r == ModelClick(state, store, c[1], c[2])
       IN  (InRange(state, c) /\ h # NULL /\ h > 0 /\ ValueAt(state, c) = h) =>
             /\ r.state.inHand = NULL
             /\ ValueAt(r.state, c) = 2 * h
             /\ \A d \in Cells \ {c} : ValueAt(r.state, d) = ValueAt(state, d)
             /\ r.state.playerIJ = state.playerIJ
  /\ (IsClick /\ last.branch = "combine") =>
       /\ state.inHand = NULL
       /\ ValueAt(state, LastCell) = 2 * last.cv

\* A token of value 2 has just been combined into a cell of value 2.
C2_Witness ==
  /\ last.op = "viewClick"
  /\ last.branch = "combine"
  /\ last.cv = 2
  /\ state.inHand = NULL
  /\ ValueAt(state, LastCell) = 4

\* C3. Combine rejects mismatch: holding h, interact on a cell whose value
\* differs from h (0 or another positive value) changes nothing - hand,
\* cell values, override table, player coordinate, stored snapshot - and
\* returns the event 'none'.
C3_MismatchIsNoOp ==
  /\ \A c \in Cells :
       LET r == ModelClick(state, store, c[1], c[2])
       IN  (state.inHand # NULL /\ ValueAt(state, c) # state.inHand) =>
             /\ r.state = state
             /\ r.store = store
             /\ r.event = EvNone
  /\ (IsClick /\ last.branch = "mismatch") =>
       /\ last.event = EvNone
       /\ state.inHand # NULL
       /\ last.cv # state.inHand

\* A held token has just been offered to an in-range cell holding another
\* positive value.
C3_Witness ==
  /\ last.op = "viewClick"
  /\ last.branch = "mismatch"
  /\ state.inHand # NULL
  /\ last.cv > 0
  /\ last.cv # state.inHand

\* C4. Range enforcement: interact on a coordinate with |di| > 3 or |dj| > 3
\* changes nothing (hand, overrides, player, snapshot) and returns 'none';
\* interact has an effect only within range; a cell at distance exactly 3 on
\* both axes is within range.
C4_RangeEnforced ==
  \A c \in Cells :
    LET r == ModelClick(state, store, c[1], c[2])
        v == ViewClick(state, store, c[1], c[2])
        di == c[1] - state.playerIJ[1]
        dj == c[2] - state.playerIJ[2]
    IN  /\ ~InRange(state, c) =>
             /\ r.state = state /\ r.store = store /\ r.event = EvNone
             /\ v.state = state /\ v.store = store /\ ~v.reload
        /\ (r.state # state \/ r.store # store) => InRange(state, c)
        /\ (di \in {INTERACT_RANGE, 0 - INTERACT_RANGE}
            /\ dj \in {INTERACT_RANGE, 0 - INTERACT_RANGE}
            /\ state.inHand = NULL /\ ValueAt(state, c) > 0) =>
             r.state.inHand = ValueAt(state, c)

\* With an empty hand, a cell holding a token has just been clicked from out
\* of range.
C4_Witness ==
  /\ last.op = "viewClick"
  /\ last.branch = "far"
  /\ \E c \in Cells : ~InRange(state, c) /\ ValueAt(state, c) > 0
  /\ state.inHand = NULL

\* C5. Win by craft: a combine whose result 2*h is >= TARGET returns the
\* victory event of mode 'craft' carrying 2*h; a combine below TARGET
\* returns 'none'.
C5_CraftVictory ==
  /\ \A c \in Cells :
       LET h == state.inHand
           r == ModelClick(state, store, c[1], c[2])
       IN  (InRange(state, c) /\ h # NULL /\ h > 0 /\ ValueAt(state, c) = h) =>
             r.event = IF 2 * h >= TARGET THEN EvVictory("craft", 2 * h) ELSE EvNone
  /\ (IsClick /\ last.branch = "combine") =>
       last.event = IF 2 * last.cv >= TARGET
                    THEN EvVictory("craft", 2 * last.cv)
                    ELSE EvNone

\* Two tokens of value 16 have just been combined.
C5_Witness ==
  /\ last.op = "viewClick"
  /\ last.branch = "combine"
  /\ last.cv = 16
  /\ last.event = EvVictory("craft", TARGET)

\* C6. Win by pickup: picking up a cell whose value cv is >= TARGET returns
\* the victory event of mode 'pick' carrying cv, and the view then resets the
\* session: the stored snapshot is deleted, and the model constructed by the
\* page load that follows starts with an empty override table and an empty
\* hand.
C6_PickVictoryResets ==
  /\ \A c \in Cells :
       LET cv == ValueAt(state, c)
           r == ModelClick(state, store, c[1], c[2])
           v == ViewClick(state, store, c[1], c[2])
       IN  (InRange(state, c) /\ state.inHand = NULL /\ cv >= TARGET) =>
             /\ r.event = EvVictory("pick", cv)
             /\ v.store = Absent
             /\ v.reload
  /\ (last.op = "createGame" /\ last.after = "pick") =>
       /\ state.modifiedCells = <<>>
       /\ state.inHand = NULL

\* C7. Override precedence: for a coordinate with an entry in the override
\* table, getCellState returns the entry's value, whatever the generator
\* gives, in the running model and in a model constructed from the saved
\* snapshot; after a page load every entry of the snapshot read is the value
\* getCellState returns.
C7_OverridePrecedence ==
  LET m == state.modifiedCells
      st2 == createGame(save(state)).state
  IN  /\ \A c \in Cells : \A n \in 1..Len(m) :
           m[n][1] = key(c[1], c[2]) =>
             /\ getCellState(state, c[1], c[2]) = m[n][2]
             /\ getCellState(st2, c[1], c[2]) = m[n][2]
      /\ (last.op = "createGame" /\ last.branch = "json") =>
           \A c \in Cells : \A n \in 1..Len(store.payload.overrides.elems) :
             store.payload.overrides.elems[n][1] = key(c[1], c[2]) =>
               getCellState(state, c[1], c[2]) = store.payload.overrides.elems[n][2]

\* After a restart from a snapshot, a cell has an override that differs from
\* the generator's value for it.
C7_Witness ==
  /\ last.op = "createGame"
  /\ last.branch = "json"
  /\ \E c \in Cells :
       /\ MapHas(state.modifiedCells, key(c[1], c[2]))
       /\ DefaultOf[c] > 0
       /\ ValueAt(state, c) # DefaultOf[c]

\* C8. Round-trip persistence: saving any reachable state (player coordinate,
\* held value or none, override table) and constructing a fresh model from
\* the store reproduces exactly that state, and leaves the snapshot in place.
C8_RoundTrip ==
  /\ createGame(save(state)).state = state
  /\ createGame(save(state)).store = save(state)

\* A model has just been constructed from a snapshot with the player away
\* from the start, a held token of value 1 and a non-empty override table.
C8_Witness ==
  /\ last.op = "createGame"
  /\ last.branch = "json"
  /\ state.playerIJ # initialIJ
  /\ state.inHand = 1
  /\ state.modifiedCells # <<>>
  /\ store = save(state)

\* The last handler completed a state-mutating model operation (move, moveTo,
\* pick-up, combine) and did not go on to reset the session.
MutatedByLast ==
  \/ last.op = "movePlayer"
  \/ last.op = "geoPosition" /\ last.branch = "moved"
  \/ last.op = "viewClick" /\ last.branch \in {"pick", "combine"}
       /\ last.event.type = "none"

\* C9. Snapshot on every mutation: when a state-mutating model operation
\* (move, moveTo, pick-up, combine) completes, the snapshot in the store is
\* the model's current (player coordinate, held value, override entries), so
\* a model constructed at that point resumes exactly the in-memory state;
\* and while no session reset is under way, a model constructed from the
\* store resumes the in-memory state.
C9_SnapshotOnEveryMutation ==
  /\ MutatedByLast => (store = save(state) /\ createGame(store).state = state)
  /\ reloading = NULL => createGame(store).state = state
  /\ \A c \in Cells :
       LET r == ModelClick(state, store, c[1], c[2])
       IN  r.branch \in {"pick", "combine"} => r.store = save(r.state)
  /\ \A p \in PlayerCoords \X PlayerCoords :
       movePlayerToIJ(state, p).store = save(movePlayerToIJ(state, p).state)
  /\ \A d \in {<<1, 0>>, <<0 - 1, 0>>, <<0, 0 - 1>>, <<0, 1>>} :
       movePlayerBy(state, d[1], d[2]).store
         = save(movePlayerBy(state, d[1], d[2]).state)

\* The player has just moved while holding a token, with overrides recorded.
C9_Witness ==
  /\ last.op = "movePlayer"
  /\ state.inHand # NULL
  /\ state.modifiedCells # <<>>
  /\ store = save(state)

\* C10. Corrupt-store resilience: constructing the model from a store entry
\* whose text does not parse yields the default initial state and removes the
\* entry from the store.
C10_CorruptStorePurged ==
  (last.op = "createGame" /\ last.branch \in {"empty", "garbage"}) =>
    /\ state = ConstructorState
    /\ store = Absent

\* The snapshot shape: a player coordinate and an overrides array of
\* [key, value] pairs (the held value may be null).
WellShaped(payload) ==
  /\ payload.playerIJ # <<>>
  /\ payload.overrides.isArray
  /\ \A n \in 1..Len(payload.overrides.elems) :
       payload.overrides.elems[n] # NotIterable

\* C11. Malformed persisted state: a stored payload that parses but lacks
\* expected fields or does not have the snapshot shape makes the model fall
\* back to the default initial state and is removed from the store.  After
\* load() a malformed payload is either gone from the store, as the claim
\* says, or still there.
C11_MalformedPurged ==
  (last.op = "createGame"
   /\ (last.branch = "jsonnull"
       \/ (store.kind = "json" /\ ~WellShaped(store.payload)))) =>
    /\ state = ConstructorState
    /\ store = Absent

\* The deltas of the four direction buttons.
Deltas == {<<1, 0>>, <<0 - 1, 0>>, <<0, 0 - 1>>, <<0, 1>>}

\* C12. move(di, dj) sets the player coordinate to (i+di, j+dj) with no
\* bounds check (also when the result leaves the window the player is kept
\* in), writes the snapshot of the new state, and leaves the held value and
\* the override table unchanged.
C12_MoveTranslates ==
  /\ \A d \in Deltas :
       LET r == movePlayerBy(state, d[1], d[2])
           to == <<state.playerIJ[1] + d[1], state.playerIJ[2] + d[2]>>
       IN  /\ r.state.playerIJ = to
           /\ r.state.inHand = state.inHand
           /\ r.state.modifiedCells = state.modifiedCells
           /\ r.store = Snapshot(to, state.inHand, state.modifiedCells)
  /\ last.op = "movePlayer" =>
       /\ state.playerIJ = <<last.i, last.j>>
       /\ store = Snapshot(state.playerIJ, state.inHand, state.modifiedCells)

\* A direction button has just taken the player, holding a token of value 1,
\* to the corner of the window.
C12_Witness ==
  /\ last.op = "movePlayer"
  /\ state.playerIJ = <<MinCoord, MinCoord>>
  /\ state.inHand = 1
  /\ store.kind = "json"
  /\ store.payload.playerIJ = <<MinCoord, MinCoord>>

\* C13. moveTo(coord) sets the player coordinate to exactly coord, writes the
\* snapshot of the new state as move does, and leaves the held value and the
\* override table unchanged.
C13_MoveToSets ==
  /\ \A p \in (MinCoord - 1..MaxPlayer + 1) \X (MinCoord - 1..MaxPlayer + 1) :
       LET r == movePlayerToIJ(state, p)
       IN  /\ r.state.playerIJ = p
           /\ r.state.inHand = state.inHand
           /\ r.state.modifiedCells = state.modifiedCells
           /\ r.store = Snapshot(p, state.inHand, state.modifiedCells)
  /\ (last.op = "geoPosition" /\ last.branch = "moved") =>
       /\ state.playerIJ = <<last.i, last.j>>
       /\ store = Snapshot(state.playerIJ, state.inHand, state.modifiedCells)

\* A location sample has just moved the player, holding a token, with
\* overrides recorded.
C13_Witness ==
  /\ last.op = "geoPosition"
  /\ last.branch = "moved"
  /\ state.playerIJ = <<last.i, last.j>>
  /\ state.inHand # NULL
  /\ state.modifiedCells # <<>>
  /\ store.kind = "json"
  /\ store.payload.playerIJ = state.playerIJ

\* C14. New Game clears the override table, empties the hand, puts the player
\* back on the fixed start and deletes the stored snapshot, so that the model
\* constructed by the page load that follows starts from the default state
\* and the old session is not resurrected.
C14_NewGameResets ==
  (last.op = "createGame" /\ last.after = "newGame") =>
    /\ state = ConstructorState
    /\ store = Absent

\* The cell a sample lies in, from the cell's bounds: CELL_DEG * c <= x and
\* x < CELL_DEG * (c + 1).
InCell(lat, lng, c) ==
  /\ CELL_DEG * c[1] <= lat /\ lat < CELL_DEG * (c[1] + 1)
  /\ CELL_DEG * c[2] <= lng /\ lng < CELL_DEG * (c[2] + 1)

\* C15. Location feed: each sample is converted to a coordinate and moveTo is
\* applied only if the coordinate differs from the player's; a sample that
\* maps to the player's coordinate changes no state and writes no snapshot.
C15_SameCellSampleIsNoOp ==
  /\ \A lat \in Samples, lng \in Samples :
       LET r == onPosition(state, store, lat, lng)
       IN  IF InCell(lat, lng, state.playerIJ)
           THEN r.state = state /\ r.store = store
           ELSE /\ InCell(lat, lng, r.state.playerIJ)
                /\ r.state.playerIJ # state.playerIJ
                /\ r.store = save(r.state)
  /\ (last.op = "geoPosition" /\ last.branch = "same") =>
       state.playerIJ = <<last.i, last.j>>
  /\ (last.op = "geoPosition" /\ last.branch = "moved") =>
       store = save(state)

\* A sample in the player's cell has just been delivered while the store
\* holds no snapshot of the state: none was written.
C15_Witness ==
  /\ last.op = "geoPosition"
  /\ last.branch = "same"
  /\ state.playerIJ = <<last.i, last.j>>
  /\ store # save(state)

\* C16. Location subscription without leaks: at most one watch is registered
\* and it is the one the view holds; starting while a watch is held registers
\* no second one; after stop no watch is registered, so a location callback
\* is delivered only while the view holds a watch in GPS mode.
C16_NoWatchLeak ==
  /\ Cardinality(watches) <= 1
  /\ watches = IF geoWatchId = NULL THEN {} ELSE {geoWatchId}
  /\ geoWatchId # NULL =>
       startGeoMovement(geoWatchId, watches, geoSupported).watches = watches
  /\ stopGeoMovement(geoWatchId, watches).watches = {}
  /\ stopGeoMovement(geoWatchId, watches).geoWatchId = NULL
  /\ ~isGpsMode => watches = {}
  /\ last.op \in {"geoPosition", "geoError"} =>
       (isGpsMode /\ geoWatchId # NULL /\ watches = {geoWatchId})

\* In GPS mode, with one watch registered, a sample has just moved the player,
\* who holds a token, to the corner of the window.
C16_Witness ==
  /\ last.op = "geoPosition"
  /\ last.branch = "moved"
  /\ isGpsMode
  /\ Cardinality(watches) = 1
  /\ state.playerIJ = <<MinCoord, MinCoord>>
  /\ state.inHand # NULL

\* The direction buttons are an active movement source.
ButtonsActive == buttonsShown
\* The location feed is an active movement source.
FeedActive == watches # {}

\* C17. Movement modes are mutually exclusive: in every reachable state
\* exactly one movement-input source is active (the direction buttons or the
\* location feed, never both), and each mode switch activates one and
\* deactivates the other.
C17_ExactlyOneMovementSource ==
  /\ ButtonsActive # FeedActive
  /\ last.op = "switchMode" => (ButtonsActive = ~isGpsMode /\ FeedActive = isGpsMode)

\* C19. Empty-hand interact on an in-range cell whose value is 0 is a no-op:
\* the hand stays empty, no override entry is created or changed, nothing is
\* written to the store, and the event is 'none'.
C19_EmptyCellIsNoOp ==
  /\ \A c \in Cells :
       LET r == handleCellClick(state, c[1], c[2])
           m == ModelClick(state, store, c[1], c[2])
       IN  (InRange(state, c) /\ state.inHand = NULL /\ ValueAt(state, c) = 0) =>
             /\ r.state.inHand = NULL
             /\ r.state.modifiedCells = state.modifiedCells
             /\ r.state = state
             /\ r.writes = <<>>
             /\ m.store = store
             /\ r.event = EvNone
  /\ (IsClick /\ last.branch = "empty") =>
       /\ last.cv = 0
       /\ last.event = EvNone
       /\ state.inHand = NULL

\* With an empty hand, an in-range cell that a pick-up had emptied has just
\* been clicked.
C19_Witness ==
  /\ last.op = "viewClick"
  /\ last.branch = "empty"
  /\ last.cv = 0
  /\ state.inHand = NULL
  /\ \E c \in Cells : InRange(state, c) /\ MapHas(state.modifiedCells, KeyOf[c])
                      /\ ValueAt(state, c) = 0 /\ DefaultOf[c] > 0

\* C20. Cell values persist across movement: no move and no moveTo changes
\* the current value of any cell, so a value modified by pick-up or combine is
\* still returned after the player has moved away.
C20_ValuesPersistAcrossMoves ==
  LET v == CellValues(state)
  IN  /\ \A d \in Deltas :
           CellValues(movePlayerBy(state, d[1], d[2]).state) = v
      /\ \A p \in MoveTargets :
           CellValues(movePlayerToIJ(state, p).state) = v

\* The player has just moved out of range of a cell that a combine had
\* changed: the cell still has the combined value.
C20_Witness ==
  /\ last.op \in {"movePlayer", "geoPosition"}
  /\ last.branch \in {"", "moved"}
  /\ \E c \in Cells :
       /\ ~InRange(state, c)
       /\ MapHas(state.modifiedCells, KeyOf[c])
       /\ ValueAt(state, c) > DefaultOf[c]
       /\ DefaultOf[c] > 0

\* C21. Hand transitions are only Empty -> Holding(cv) by a pick-up and
\* Holding(h) -> Empty by a combine on a cell of value h: no interact, move
\* or moveTo changes Holding(h) into Holding(h') with h' # h, and none empties
\* the hand without doubling a matching cell.
C21_HandTransitions ==
  /\ \A c \in Cells :
       LET r == handleCellClick(state, c[1], c[2])
           h == state.inHand
           h2 == r.state.inHand
           cv == ValueAt(state, c)
       IN  h2 # h =>
             \/ /\ h = NULL
                /\ r.branch = "pick"
                /\ h2 = cv
                /\ cv > 0
             \/ /\ h # NULL
                /\ h2 = NULL
                /\ r.branch = "combine"
                /\ cv = h
                /\ ValueAt(r.state, c) = 2 * h
  /\ \A d \in Deltas :
       movePlayerBy(state, d[1], d[2]).state.inHand = state.inHand
  /\ \A p \in MoveTargets :
       movePlayerToIJ(state, p).state.inHand = state.inHand
  /\ (IsClick /\ last.branch = "pick") => state.inHand = last.cv
  /\ (IsClick /\ last.branch = "combine") =>
       (state.inHand = NULL /\ ValueAt(state, LastCell) = 2 * last.cv)

\* The hand has gone Empty -> Holding(h) -> Empty: a combine has just emptied
\* it onto a cell of value h, and the cell the token was picked from is empty.
C21_Witness ==
  /\ IsClick
  /\ last.branch = "combine"
  /\ state.inHand = NULL
  /\ ValueAt(state, LastCell) = 2 * last.cv
  /\ \E c \in Cells :
       c # LastCell /\ DefaultOf[c] = last.cv /\ ValueAt(state, c) = 0

RECURSIVE IsPowerOfTwo(_)
IsPowerOfTwo(v) ==
  \/ v = 1
  \/ v > 1 /\ v % 2 = 0 /\ IsPowerOfTwo(v \div 2)

\* The override entries recording an emptied cell.
EmptiedEntries(st) ==
  {n \in 1..Len(st.modifiedCells) : st.modifiedCells[n][2] = 0}

\* C22. Value domain: in every reachable state every cell's current value is
\* 0 or a power of two, and the held value is either none or a positive power
\* of two that was removed from a cell: some cell stands emptied for it (never
\* 0, never fabricated).
C22_ValueDomain ==
  /\ \A c \in Cells :
       LET v == ValueAt(state, c) IN v = 0 \/ IsPowerOfTwo(v)
  /\ \A n \in 1..Len(state.modifiedCells) :
       LET v == state.modifiedCells[n][2] IN v = 0 \/ IsPowerOfTwo(v)
  /\ state.inHand # NULL =>
       /\ state.inHand > 0
       /\ IsPowerOfTwo(state.inHand)
       /\ EmptiedEntries(state) # {}
  /\ (IsClick /\ last.branch = "pick") =>
       /\ state.inHand = last.cv
       /\ MapGet(state.modifiedCells, KeyOf[LastCell]) = 0

\* A crafted 2 has just been picked up from a cell generated as 1, while a
\* cell generated as 2 still has its token.
C22_Witness ==
  /\ IsClick
  /\ last.branch = "pick"
  /\ state.inHand = 2
  /\ DefaultOf[LastCell] = 1
  /\ \E c \in Cells : DefaultOf[c] = 2 /\ ValueAt(state, c) = 2

\* C23. Every entry of the override table holds a value different from the
\* generator's base value for that coordinate: the table records only cells
\* that have diverged from the generated world.
C23_OverridesDiverge ==
  /\ \A n \in 1..Len(state.modifiedCells) :
       \E c \in Cells :
         /\ KeyOf[c] = state.modifiedCells[n][1]
         /\ state.modifiedCells[n][2] # DefaultOf[c]
  /\ \A c \in Cells :
       MapHas(state.modifiedCells, KeyOf[c]) => ValueAt(state, c) # DefaultOf[c]
  /\ (IsClick /\ last.branch \in {"pick", "combine"}) =>
       /\ MapHas(state.modifiedCells, KeyOf[LastCell])
       /\ ValueAt(state, LastCell) # DefaultOf[LastCell]

\* A combine has just been recorded: the table holds the emptied source cell
\* and the doubled target cell, both generated as tokens.
C23_Witness ==
  /\ IsClick
  /\ last.branch = "combine"
  /\ Len(state.modifiedCells) >= 2
  /\ ValueAt(state, LastCell) = 2 * DefaultOf[LastCell]
  /\ \E c \in Cells :
       /\ MapHas(state.modifiedCells, KeyOf[c])
       /\ DefaultOf[c] > 0
       /\ ValueAt(state, c) = 0

\* Coordinates with one- and two-digit components of both signs, among them
\* (1,23) and (12,3), (-1,2) and (1,-2), (1,-12) and (-11,2).
KeyComponents == {0 - 12, 0 - 11, 0 - 2, 0 - 1, 0, 1, 2, 3, 12, 23}
KeyCoords == KeyComponents \X KeyComponents
KeysDistinctOn(S) ==
  \A a \in S, b \in S : a # b => key(a[1], a[2]) # key(b[1], b[2])
KeysDistinct == KeysDistinctOn(KeyCoords)

\* The cells whose value an override entry is read as.
ReadersOf(k) == {c \in Cells : KeyOf[c] = k}

\* C24. The override key encoding is injective: two distinct integer
\* coordinates, negative components included, have distinct keys, so an
\* override set for one coordinate is never read as the value of another.
C24_KeyInjective ==
  /\ KeysDistinct
  /\ \A n \in 1..Len(state.modifiedCells) :
       Cardinality(ReadersOf(state.modifiedCells[n][1])) = 1
  /\ (IsClick /\ last.branch \in {"pick", "combine"}) =>
       ReadersOf(KeyOf[LastCell]) = {LastCell}

\* The table holds overrides of two cells, one of them with a negative
\* component whose mirror cell (i, -j) has no override and reads its generated
\* value.
C24_Witness ==
  /\ IsClick
  /\ last.branch \in {"pick", "combine"}
  /\ Len(state.modifiedCells) >= 2
  /\ \E c \in Cells :
       /\ c[2] < 0
       /\ MapHas(state.modifiedCells, KeyOf[c])
       /\ <<c[1], 0 - c[2]>> \in Cells
       /\ ~MapHas(state.modifiedCells, KeyOf[<<c[1], 0 - c[2]>>])
       /\ ValueAt(state, <<c[1], 0 - c[2]>>) = DefaultOf[<<c[1], 0 - c[2]>>]

\* The values of r in [0,1), in hundredths.
Hundredths == 0..99
BaseValues == {0, 1, 2, 4}
BucketsAsStated ==
  \A r \in Hundredths :
    /\ r \in 0..24 => bucket(r) = 1
    /\ r \in 25..29 => bucket(r) = 2
    /\ r \in 30..31 => bucket(r) = 4
    /\ r \in 32..99 => bucket(r) = 0
    /\ bucket(r) \in BaseValues

\* C25. Generator bucketing: for the pseudo-random number r in [0,1) of a
\* coordinate the base value is 1 when r < 0.25, 2 when 0.25 <= r < 0.30,
\* 4 when 0.30 <= r < 0.32 and 0 otherwise; the result is always in
\* {0, 1, 2, 4}, in the generated window and for every cell without an
\* override.
C25_GeneratorBucketing ==
  /\ BucketsAsStated
  /\ \A c \in Cells :
       /\ DefaultOf[c] \in BaseValues
       /\ ~MapHas(state.modifiedCells, KeyOf[c]) => ValueAt(state, c) \in BaseValues

\* A game has been created with no override: the window shows the generated
\* world, with a cell of 1, a cell of 2 and an empty cell.
C25_Witness ==
  /\ last.op = "createGame"
  /\ state.modifiedCells = <<>>
  /\ \E c \in Cells : ValueAt(state, c) = 1
  /\ \E c \in Cells : ValueAt(state, c) = 2
  /\ \E c \in Cells : ValueAt(state, c) = 0

\* C26. Location-feed failure: when the location collaborator reports an
\* error, the model state (player coordinate, hand, overrides) and the
\* persisted snapshot are unchanged, the watch stays registered, and a later
\* successful sample still moves the player.
C26_FeedErrorIsHarmless ==
  /\ watches # {} =>
       LET r == onError(state, store, geoWatchId, watches)
       IN  /\ r.state = state
           /\ r.store = store
           /\ r.geoWatchId = geoWatchId
           /\ r.watches = watches
           /\ \A lat \in Samples, lng \in Samples :
                toIJ(lat, lng) # state.playerIJ =>
                  LET m == onPosition(r.state, r.store, lat, lng)
                  IN  /\ m.branch = "moved"
                      /\ m.state.playerIJ = toIJ(lat, lng)
  /\ last.op = "geoError" =>
       /\ watches # {}
       /\ geoWatchId \in watches
       /\ isGpsMode
       /\ \E lat \in Samples, lng \in Samples :
            onPosition(state, store, lat, lng).state.playerIJ # state.playerIJ

\* The feed has just reported an error in the middle of a session: a token is
\* in the hand, the snapshot is the one of the session, and the watch is
\* still registered.
C26_Witness ==
  /\ last.op = "geoError"
  /\ state.inHand # NULL
  /\ state.modifiedCells # <<>>
  /\ store = save(state)
  /\ geoWatchId \in watches

\* C27. Every snapshot written to the store during interact is a consistent
\* state: no written snapshot records the source cell as emptied while the
\* hand is still Empty (pick-up), and none records the target cell as doubled
\* while the hand still holds the token (combine).
C27_WrittenSnapshotsConsistent ==
  \A c \in Cells :
    LET r == handleCellClick(state, c[1], c[2])
    IN  \A n \in 1..Len(r.writes) :
          LET w == createGame(r.writes[n]).state
          IN  /\ r.branch = "pick" =>
                   ~(ValueAt(w, c) = 0 /\ w.inHand = NULL)
              /\ r.branch = "combine" =>
                   ~(ValueAt(w, c) = 2 * state.inHand /\ w.inHand = state.inHand)

\* The held value, 0 when the hand is Empty.
Held(st) == IF st.inHand = NULL THEN 0 ELSE st.inHand

RECURSIVE ListSum(_, _, _)
ListSum(st, l, n) ==
  IF n = 0 THEN 0 ELSE ValueAt(st, l[n]) + ListSum(st, l, n - 1)
RegionSum(st, R) ==
  IF R = Cells THEN ListSum(st, WindowList, Len(WindowList))
  ELSE LET l == CellList(R) IN ListSum(st, l, Len(l))

\* The sum of the current values of the cells of region R plus the held value.
Total(st, R) == RegionSum(st, R) + Held(st)

\* Bounded regions around a cell: the cell alone, its row and its column in
\* the window, and the whole window.
RegionsOf(c) ==
  { {c}, {d \in Cells : d[1] = c[1]}, {d \in Cells : d[2] = c[2]}, Cells }
Regions == UNION {RegionsOf(c) : c \in Cells}

\* C28, as stated. Value conservation: over any bounded region, the sum of
\* the current values of all cells plus the held value (0 when the hand is
\* Empty) is the same after every interact, move and moveTo as before it.
C28_ConservedOverAnyRegion ==
  \A R \in Regions :
    LET t == Total(state, R)
    IN  /\ \A c \in Cells :
             Total(handleCellClick(state, c[1], c[2]).state, R) = t
        /\ \A d \in Deltas : Total(movePlayerBy(state, d[1], d[2]).state, R) = t
        /\ \A p \in MoveTargets :
             Total(movePlayerToIJ(state, p).state, R) = t

\* C28, amended. The sum of the current values of the cells of a bounded
\* region plus the held value is the same after an interact as before it when
\* the region contains the cell acted on; a move or moveTo leaves the sum of
\* every region as it was.
C28_ConservedAroundCell ==
  /\ \A c \in Cells :
       LET r == handleCellClick(state, c[1], c[2])
       IN  IF r.branch \in {"pick", "combine"}
           THEN \A R \in RegionsOf(c) : Total(r.state, R) = Total(state, R)
           ELSE r.state = state
  /\ LET t == Total(state, Cells)
     IN  /\ \A d \in Deltas :
              LET m == movePlayerBy(state, d[1], d[2]).state
              IN  Total(m, Cells) = t
         /\ \A p \in MoveTargets :
              LET m == movePlayerToIJ(state, p).state
              IN  Total(m, Cells) = t
  /\ (IsClick /\ last.branch = "pick") =>
       Total(state, {LastCell}) = last.cv
  /\ (IsClick /\ last.branch = "combine") =>
       Total(state, {LastCell}) = last.cv + last.cv

\* A combine has just put the held token into a cell: the window still holds
\* the total value the generator gave it.
C28_Witness ==
  /\ IsClick
  /\ last.branch = "combine"
  /\ Held(state) = 0
  /\ Total(state, Cells) = Total(ConstructorState, Cells)
  /\ Total(state, {LastCell}) = 2 * last.cv

\* C29. An empty cell stays empty: once a cell's current value is 0 (by
\* generator default or after a pick-up), no interact, move or moveTo within
\* the session makes its current value positive again.
C29_EmptyStaysEmpty ==
  /\ \A c \in Cells :
       LET r == handleCellClick(state, c[1], c[2])
       IN  IF r.branch \in {"pick", "combine"}
           THEN /\ ValueAt(state, c) > 0
                /\ \A d \in Cells :
                     ValueAt(state, d) = 0 => ValueAt(r.state, d) = 0
           ELSE r.state.modifiedCells = state.modifiedCells
  /\ \A d \in Deltas :
       movePlayerBy(state, d[1], d[2]).state.modifiedCells = state.modifiedCells
  /\ \A p \in MoveTargets :
       movePlayerToIJ(state, p).state.modifiedCells = state.modifiedCells
  /\ (IsClick /\ last.branch \in {"pick", "combine"}) => last.cv > 0
  /\ \A c \in Cells : DefaultOf[c] = 0 => ValueAt(state, c) = 0

\* Holding a token, the player has just clicked an in-range cell that a
\* pick-up had emptied: the cell is still empty and the token still held.
C29_Witness ==
  /\ IsClick
  /\ last.branch = "mismatch"
  /\ last.cv = 0
  /\ state.inHand # NULL
  /\ \E c \in Cells :
       /\ InRange(state, c)
       /\ DefaultOf[c] > 0
       /\ MapHas(state.modifiedCells, KeyOf[c])
       /\ ValueAt(state, c) = 0

\* Every cell value and the held value are below TARGET.
BelowTarget(st) ==
  /\ \A c \in Cells : ValueAt(st, c) < TARGET
  /\ Held(st) < TARGET

\* C30. In the GameModel/GameView version every state between two events
\* has all cell values and the held value below TARGET, because a craft
\* reaching TARGET immediately clears the saved state and reloads; hence a
\* victory event with mode 'pick' is never emitted.
C30_NoPickVictory ==
  /\ reloading = NULL => BelowTarget(state)
  /\ ~(last.event.type = "victory" /\ last.event.mode = "pick")

\* Reading the entry throws: the text does not parse, it is the text null
\* (parsed.overrides on null), or the overrides array has an element that
\* cannot be destructured into a pair.
ReadFails(saved) ==
  \/ saved.kind \in {"garbage", "jsonnull"}
  \/ /\ saved.kind = "json"
     /\ saved.payload.overrides.isArray
     /\ \E n \in 1..Len(saved.payload.overrides.elems) :
          saved.payload.overrides.elems[n] = NotIterable

\* Every failing entry the page can be opened with leaves the constructor's
\* state as it was, and some of them fail after fields and pairs were read.
FailedReadsApplyNothing ==
  /\ \A s \in InitStores :
       ReadFails(s) => load(ConstructorState, s).state = ConstructorState
  /\ \E s \in InitStores :
       /\ ReadFails(s)
       /\ s.payload.playerIJ # <<>>
       /\ s.payload.inHand # NULL
       /\ Head(s.payload.overrides.elems) # NotIterable

\* C31. Load is all-or-nothing: when reading the stored payload fails
\* part-way (for example the overrides array contains an element that is not
\* a pair), no field of the payload is applied: the player coordinate, the
\* hand and the override table all keep their default initial values.
C31_LoadAllOrNothing ==
  /\ FailedReadsApplyNothing
  /\ ReadFails(store) => createGame(store).state = ConstructorState
  /\ (last.op = "createGame" /\ last.branch \in {"garbage", "jsonnull", "json"}
      /\ store = Absent) =>
       /\ state.playerIJ = initialIJ
       /\ state.inHand = NULL
       /\ state.modifiedCells = <<>>

\* A game has just been created from a stored object whose reading threw:
\* the entry is gone and the state is the constructor's.
C31_Witness ==
  /\ last.op = "createGame"
  /\ last.branch = "json"
  /\ store = Absent
  /\ state = ConstructorState
  /\ \E s \in InitStores :
       ReadFails(s) /\ s.kind = "json" /\ s.payload.inHand # NULL
       /\ createGame(s).state = state /\ createGame(s).store = store

\* C32. Once the saved state has been cleared for New Game or a victory, no
\* later event (in particular a location-feed callback arriving before the
\* reload completes) writes a snapshot again, so the model constructed after
\* the reload always starts from the default state.
C32_ClearedStaysCleared ==
  /\ reloading # NULL => store = Absent
  /\ (last.op = "createGame" /\ last.after \in {"pick", "craft", "newGame"}) =>
       /\ last.branch = "absent"
       /\ state = ConstructorState

====
